---- MODULE Spec2Model ----
(***************************************************************************)
(* Model of blueprint's create.js: parseLine, buildTree, createFolders and *)
(* main.  A line is a sequence of characters; a node is identified by the  *)
(* order of its creation in buildTree; a path is the sequence of the names *)
(* joined below the output directory; the filesystem is the set of paths   *)
(* that are directories and the set of paths that are other entries.       *)
(***************************************************************************)
EXTENDS Integers, Sequences, FiniteSets, TLC

VARIABLES lines, pc, i, parsed, names, children, stack, cs, fs, out, err,
          run, fs0, fsFirst

vars ==
    <<lines, pc, i, parsed, names, children, stack, cs, fs, out, err,
      run, fs0, fsFirst>>

----------------------------------------------------------------------------
(* Bounds of the checked instances.                                        *)

MaxLineLen == 5
MaxTreeLines == 4
MaxMainLines == 3

----------------------------------------------------------------------------
(* Characters and strings.                                                 *)

SP == " "
TAB == "\t"

\* The characters matched by \s and stripped by String.prototype.trim,
\* restricted to the alphabet of the model.
Whitespace ==
    {SP, TAB}

Letters ==
    {"a", "b"}

Chars ==
    Whitespace \cup Letters

IndentWidth == 4

RECURSIVE LeadingWhitespace(_)
\* line.match(/^(\s*)/)[1].length : the length of the longest prefix of
\* whitespace characters.
LeadingWhitespace(line) ==
    IF line = <<>> \/ Head(line) \notin Whitespace
    THEN 0
    ELSE 1 + LeadingWhitespace(Tail(line))

RECURSIVE TrimEnd(_)
TrimEnd(line) ==
    IF line = <<>> \/ line[Len(line)] \notin Whitespace
    THEN line
    ELSE TrimEnd(SubSeq(line, 1, Len(line) - 1))

\* line.trim()
Trim(line) ==
    TrimEnd(SubSeq(line, LeadingWhitespace(line) + 1, Len(line)))

\* parseLine with `!line` for `!line.trim()`.
parseLineNoTrim(line) ==
    IF line = <<>>
    THEN [null |-> TRUE]
    ELSE [level |-> LeadingWhitespace(line) \div IndentWidth, content |-> Trim(line)]

NULL ==
    [null |-> TRUE]

LevelOf(leadingSpaces) ==
    leadingSpaces \div IndentWidth

parseLine(line) ==
    IF Trim(line) = <<>>
    THEN NULL
    ELSE [level |-> LevelOf(LeadingWhitespace(line)), content |-> Trim(line)]

----------------------------------------------------------------------------
(* buildTree.  Node 0 stands for the array `root`; node k >= 1 is the k-th *)
(* object created at line 41.  A stack frame holds a level and the node    *)
(* whose children array it references; the children arrays are kept as a   *)
(* sequence indexed by node + 1.                                           *)

Sentinel ==
    [level |-> -1, children |-> 0]

EmptyTree ==
    [names |-> <<>>, children |-> <<<<>>>>, stack |-> <<Sentinel>>]

RECURSIVE PopToStrict(_, _)
\* The loop of line 44 with > for >=.
PopToStrict(stk, level) ==
    IF Len(stk) > 1 /\ stk[Len(stk)].level > level
    THEN PopToStrict(SubSeq(stk, 1, Len(stk) - 1), level)
    ELSE stk

RECURSIVE PopTo(_, _)
\* while (stack.length > 1 && stack[stack.length - 1].level >= level) pop
PopTo(stk, level) ==
    IF Len(stk) > 1 /\ stk[Len(stk)].level >= level
    THEN PopTo(SubSeq(stk, 1, Len(stk) - 1), level)
    ELSE stk

\* unshift for push at line 49.
PushChildFront(list, node) ==
    <<node>> \o list

PushChild(list, node) ==
    Append(list, node)

\* One iteration of the for loop of buildTree on the tree under construction.
LoopBody(t, line) ==
    IF parseLine(line) = NULL
    THEN t
    ELSE LET p == parseLine(line)
             node == Len(t.names) + 1
             stk == PopTo(t.stack, p.level)
             par == stk[Len(stk)].children
         IN [names |-> Append(t.names, p.content),
             children |->
                 Append([t.children EXCEPT ![par + 1] = PushChild(@, node)],
                        <<>>),
             stack |-> Append(stk, [level |-> p.level, children |-> node])]

Tree ==
    [names |-> names, children |-> children, stack |-> stack]

----------------------------------------------------------------------------
(* Paths and the filesystem.                                               *)

Root ==
    <<>>

\* path.join(node.name): parentPath forgotten at line 65.
JoinFlat(parentPath, name) ==
    <<name>>

\* path.join(parentPath, node.name) for a name that is one path segment.
Join(parentPath, name) ==
    Append(parentPath, name)

Prefixes(p) ==
    {SubSeq(p, 1, k) : k \in 0..Len(p)}

\* A test for a directory in the place of existsSync.
existsSyncDirOnly(f, p) ==
    p \in f.dirs

\* A test for a regular file in the place of existsSync.
existsSyncFileOnly(f, p) ==
    p \in f.files

\* fs.existsSync(path): an entry is there (nothing can be found below an
\* entry that is not a directory).
existsSync(f, p) ==
    p \in f.dirs \cup f.files

\* mkdirSync that succeeds below a regular file.
mkdirAlways(f, p) ==
    TRUE

\* fs.mkdirSync(path, {recursive: true}) cannot succeed below, or on, an
\* entry that is not a directory.
mkdirAllowed(f, p) ==
    Prefixes(p) \cap f.files = {}

\* fs.mkdirSync(path, {recursive: true}): the path and its missing ancestors
\* become directories; an existing directory is left as it is.
mkdirSync(f, p) ==
    [dirs |-> f.dirs \cup Prefixes(p), files |-> f.files]

----------------------------------------------------------------------------
(* createFolders.  The recursion is kept as a call stack: one frame per    *)
(* active call, holding the nodes its for loop has still to visit and its  *)
(* parentPath.  The visited node is the head of the top frame.             *)

Top(s) ==
    s[Len(s)]

Pop(s) ==
    SubSeq(s, 1, Len(s) - 1)

\* The children put behind the nodes already waiting (breadth first).
CallLast(s, nodes, parentPath) ==
    IF nodes = <<>>
    THEN s
    ELSE <<[nodes |-> nodes, parent |-> parentPath]>> \o s

\* createFolders(nodes, parentPath): a call on no node returns at once
\* (line 74 does not even make it).
Call(s, nodes, parentPath) ==
    IF nodes = <<>>
    THEN s
    ELSE Append(s, [nodes |-> nodes, parent |-> parentPath])

RECURSIVE Return(_)
\* A call whose for loop has no node left returns to its caller.
Return(s) ==
    IF s # <<>> /\ Top(s).nodes = <<>>
    THEN Return(Pop(s))
    ELSE s

CurNode ==
    Head(Top(cs).nodes)

folderPath ==
    Join(Top(cs).parent, names[CurNode])

\* Lines 74-77 after the report of the visited node: the loop moves to the
\* next node once the call on the children has returned.
Descend(s, node, path) ==
    Return(Call(Append(Pop(s), [Top(s) EXCEPT !.nodes = Tail(@)]),
                children[node + 1], path))

Report(kind) ==
    [kind |-> kind, node |-> CurNode, path |-> folderPath]

\* A try/catch around line 68 that goes on with the next node.
Swallowed(s) ==
    [pc |-> "createFolders",
     cs |-> Return(Append(Pop(s), [Top(s) EXCEPT !.nodes = Tail(@)]))]

\* An error thrown by mkdirSync is caught nowhere (lines 63-78, 103-109):
\* every call is left and the process ends.
Uncaught(s) ==
    [pc |-> "failed", cs |-> <<>>]

----------------------------------------------------------------------------
(* Inputs.                                                                 *)

RECURSIVE Repeat(_, _)
Repeat(c, n) ==
    IF n = 0 THEN <<>> ELSE <<c>> \o Repeat(c, n - 1)

RECURSIVE SeqsUpTo(_, _)
\* The sequences of at most n elements of S.
SeqsUpTo(S, n) ==
    IF n = 0
    THEN {<<>>}
    ELSE LET shorter == SeqsUpTo(S, n - 1)
         IN shorter \cup {Append(s, x) : s \in shorter, x \in S}

\* Every line of at most MaxLineLen characters.
AllLines ==
    SeqsUpTo(Chars, MaxLineLen)

\* Lines of a template: a name behind an indentation, or a blank line.
TreeLines ==
    {<<"a">>, Repeat(SP, 3) \o <<"b">>, Repeat(SP, 4) \o <<"a">>,
     Repeat(SP, 8) \o <<"b">>, Repeat(TAB, 4) \o <<"a">>,
     <<>>, Repeat(SP, 5)}

MainLines ==
    {<<"a">>, <<"b">>, Repeat(SP, 4) \o <<"a">>, Repeat(SP, 4) \o <<"b">>,
     Repeat(SP, 8) \o <<"a">>, <<>>, Repeat(SP, 4)}

\* The paths below the output directory where something may be before the
\* run: a, b and a/b.
PrePaths ==
    {<<<<"a">>>>, <<<<"b">>>>, <<<<"a">>, <<"b">>>>}

\* The filesystems before the run: the output directory and, at any of
\* these paths whose parent is a directory, a directory or a regular file.
InitialFs ==
    {[dirs |-> D \cup {Root}, files |-> F] :
        <<D, F>> \in {<<D, F>> \in (SUBSET PrePaths) \X (SUBSET PrePaths) :
            /\ D \cap F = {}
            /\ \A p \in D \cup F : Len(p) = 2 => <<p[1]>> \in D}}

----------------------------------------------------------------------------
(* Actions.                                                                *)

InitWith(ls, f) ==
    /\ lines = ls
    /\ i = 1
    /\ parsed = NULL
    /\ names = EmptyTree.names
    /\ children = EmptyTree.children
    /\ stack = EmptyTree.stack
    /\ cs = <<>>
    /\ fs = f
    /\ out = <<>>
    /\ err = <<>>
    /\ run = 1
    /\ fs0 = f
    /\ fsFirst = f

\* main, lines 100-105: the template is read and split into lines.
Init ==
    /\ pc = "buildTree"
    /\ \E ls \in SeqsUpTo(MainLines, MaxMainLines), f \in InitialFs :
           InitWith(ls, f)

InitTree ==
    /\ pc = "buildTree"
    /\ \E ls \in SeqsUpTo(TreeLines, MaxTreeLines) :
           InitWith(ls, [dirs |-> {Root}, files |-> {}])

InitLine ==
    /\ pc = "parseLine"
    /\ \E l \in AllLines :
           InitWith(<<l>>, [dirs |-> {Root}, files |-> {}])

\* parseLine(line) on its own.
ParseLineCall ==
    /\ pc = "parseLine"
    /\ parsed' = parseLine(lines[1])
    /\ pc' = "parsed"
    /\ UNCHANGED <<lines, i, names, children, stack, cs, fs, out, err, run,
                   fs0, fsFirst>>

\* One iteration of the loop of buildTree (lines 36-53).
BuildTreeStep ==
    /\ pc = "buildTree"
    /\ i <= Len(lines)
    /\ parsed' = parseLine(lines[i])
    /\ LET t == LoopBody(Tree, lines[i])
       IN /\ names' = t.names
          /\ children' = t.children
          /\ stack' = t.stack
    /\ i' = i + 1
    /\ UNCHANGED <<lines, pc, cs, fs, out, err, run, fs0, fsFirst>>

\* buildTree returns root (line 55) and main calls createFolders (line 107).
BuildTreeReturn ==
    /\ pc = "buildTree"
    /\ i > Len(lines)
    /\ pc' = "createFolders"
    /\ cs' = Call(<<>>, children[1], Root)
    /\ UNCHANGED <<lines, i, parsed, names, children, stack, fs, out, err,
                   run, fs0, fsFirst>>

\* Lines 65-67, 70-77: something is at folderPath.
VisitExists ==
    /\ pc = "createFolders"
    /\ cs # <<>>
    /\ existsSync(fs, folderPath)
    /\ out' = Append(out, Report("Exists"))
    /\ cs' = Descend(cs, CurNode, folderPath)
    /\ UNCHANGED <<lines, pc, i, parsed, names, children, stack, fs, err,
                   run, fs0, fsFirst>>

\* Lines 65-69, 74-77: nothing is at folderPath and mkdirSync succeeds.
VisitCreate ==
    /\ pc = "createFolders"
    /\ cs # <<>>
    /\ ~existsSync(fs, folderPath)
    /\ mkdirAllowed(fs, folderPath)
    /\ fs' = mkdirSync(fs, folderPath)
    /\ out' = Append(out, Report("Created"))
    /\ cs' = Descend(cs, CurNode, folderPath)
    /\ UNCHANGED <<lines, pc, i, parsed, names, children, stack, err, run,
                   fs0, fsFirst>>

\* Lines 65-68: nothing is at folderPath and mkdirSync throws (the parent is
\* not a directory, or permission denied, disk full, ...).
VisitThrow ==
    /\ pc = "createFolders"
    /\ cs # <<>>
    /\ ~existsSync(fs, folderPath)
    /\ err' = <<folderPath>>
    /\ pc' = Uncaught(cs).pc
    /\ cs' = Uncaught(cs).cs
    /\ UNCHANGED <<lines, i, parsed, names, children, stack, fs, out, run,
                   fs0, fsFirst>>

\* Line 108: createFolders has returned to main.
MainDone ==
    /\ pc = "createFolders"
    /\ cs = <<>>
    /\ pc' = "done"
    /\ fsFirst' = IF run = 1 THEN fs ELSE fsFirst
    /\ UNCHANGED <<lines, i, parsed, names, children, stack, cs, fs, out,
                   err, run, fs0>>

\* createFolders is called again on the same forest and directory (the
\* call of line 107, repeated).
Rerun ==
    /\ pc = "done"
    /\ run = 1
    /\ run' = 2
    /\ pc' = "createFolders"
    /\ cs' = Call(<<>>, children[1], Root)
    /\ out' = <<>>
    /\ UNCHANGED <<lines, i, parsed, names, children, stack, fs, err, fs0,
                   fsFirst>>

Next ==
    \/ BuildTreeStep
    \/ BuildTreeReturn
    \/ VisitExists
    \/ VisitCreate
    \/ VisitThrow
    \/ MainDone
    \/ Rerun

Spec ==
    Init /\ [][Next]_vars

NextTree ==
    \/ BuildTreeStep
    \/ BuildTreeReturn

SpecTree ==
    InitTree /\ [][NextTree]_vars

NextLine ==
    ParseLineCall

SpecLine ==
    InitLine /\ [][NextLine]_vars

----------------------------------------------------------------------------
(* Vocabulary of the properties, stated without the operators above.       *)

ProperPrefixes(p) ==
    {SubSeq(p, 1, k) : k \in 0..(Len(p) - 1)}

IsBlankLine(l) ==
    \A k \in 1..Len(l) : l[k] \in {" ", "\t"}

NonBlank(ls) ==
    SelectSeq(ls, LAMBDA l : ~IsBlankLine(l))

RECURSIVE LeadingSpaces(_)
\* The number of space characters a line starts with.
LeadingSpaces(l) ==
    IF l = <<>> \/ Head(l) # " " THEN 0 ELSE 1 + LeadingSpaces(Tail(l))

NumNodes ==
    Len(names)

Nodes ==
    1..NumNodes

\* The depth of the line node k was made from.
DepthOf(k) ==
    parseLine(NonBlank(lines)[k]).level

IsChild(n, p) ==
    \E k \in 1..Len(children[p + 1]) : children[p + 1][k] = n

ParentOf(n) ==
    CHOOSE p \in 0..NumNodes : IsChild(n, p)

\* The nearest preceding non-blank line of strictly smaller depth, 0 if none.
NearestShallower(k) ==
    LET S == {j \in 1..(k - 1) : DepthOf(j) < DepthOf(k)}
    IN IF S = {} THEN 0 ELSE CHOOSE j \in S : \A h \in S : h <= j

RECURSIVE Ancestors(_)
Ancestors(n) ==
    IF ParentOf(n) = 0
    THEN {}
    ELSE {ParentOf(n)} \cup Ancestors(ParentOf(n))

Subtree(n) ==
    {m \in Nodes : m = n \/ n \in Ancestors(m)}

RECURSIVE NodePath(_)
\* The root joined with the names of the ancestors of n and its own name.
NodePath(n) ==
    IF n = 0 THEN <<>> ELSE Append(NodePath(ParentOf(n)), names[n])

\* s comes before t in the child list of their common parent.
SiblingBefore(s, t) ==
    \E p \in 0..NumNodes :
        \E a, b \in 1..Len(children[p + 1]) :
            a < b /\ children[p + 1][a] = s /\ children[p + 1][b] = t

Reported(n, before) ==
    \E q \in 1..(before - 1) : out[q].node = n

CreatedPaths ==
    {out[q].path : q \in {r \in 1..Len(out) : out[r].kind = "Created"}}

Visiting ==
    pc = "createFolders" /\ cs # <<>>

VisitedPath ==
    Append(cs[Len(cs)].parent, names[Head(cs[Len(cs)].nodes)])

RECURSIVE BuildTreeOf(_)
\* The tree buildTree has after the lines ls.
BuildTreeOf(ls) ==
    IF ls = <<>>
    THEN EmptyTree
    ELSE LoopBody(BuildTreeOf(SubSeq(ls, 1, Len(ls) - 1)), ls[Len(ls)])

----------------------------------------------------------------------------
(* Properties.                                                             *)

\* C1: every node made by buildTree is a child of exactly one node, the node
\* of the nearest preceding non-blank line of strictly smaller depth, and is
\* a root of the forest when no preceding non-blank line is shallower (a
\* first line of depth > 0 and a depth that skips levels included).
C1_NearestShallowerParent ==
    /\ NumNodes = Len(NonBlank(SubSeq(lines, 1, i - 1)))
    /\ \A k \in Nodes :
           /\ \A p \in 0..NumNodes : IsChild(k, p) <=> p = NearestShallower(k)
           /\ Cardinality({a \in 1..Len(children[NearestShallower(k) + 1]) :
                               children[NearestShallower(k) + 1][a] = k}) = 1

\* A first line of depth > 0 that is a root, and a child two levels deeper
\* than its parent, after buildTree has returned.
C1_Witness ==
    /\ pc = "createFolders"
    /\ NumNodes >= 3
    /\ DepthOf(1) > 0
    /\ IsChild(1, 0)
    /\ \E k \in Nodes :
           ParentOf(k) # 0 /\ DepthOf(k) >= DepthOf(ParentOf(k)) + 2

\* C2: in a second run on the same template and directory, after a first run
\* that completed, every report is Exists, nothing is created, the filesystem
\* stays as the first run left it, and the completed second run has reported
\* every node.
C2_SecondRunOnlyExists ==
    run = 2 =>
        /\ \A q \in 1..Len(out) : out[q].kind = "Exists"
        /\ fs = fsFirst
        /\ err = <<>>
        /\ pc = "done" =>
               /\ Len(out) = NumNodes
               /\ {out[q].node : q \in 1..Len(out)} = Nodes

\* A completed second run of a template of two nodes or more whose first run
\* created directories.
C2_Witness ==
    /\ run = 2
    /\ pc = "done"
    /\ NumNodes >= 2
    /\ fsFirst.dirs # fs0.dirs

\* C3: in the reports of a run no node is reported twice, every ancestor of a
\* reported node is reported before it, and when a node of the subtree of a
\* sibling is reported, the whole subtree of every earlier sibling has been
\* reported before.
C3_PreOrder ==
    \A q \in 1..Len(out) :
        /\ ~Reported(out[q].node, q)
        /\ \A m \in Ancestors(out[q].node) : Reported(m, q)
        /\ \A s, t \in Nodes :
               (SiblingBefore(s, t) /\ out[q].node \in Subtree(t)) =>
                   \A m \in Subtree(s) : Reported(m, q)

\* A completed run on a forest where a node with a child has a later sibling.
C3_Witness ==
    /\ pc = "done"
    /\ Len(out) = NumNodes
    /\ \E s, t \in Nodes : SiblingBefore(s, t) /\ Subtree(s) # {s}

\* C4: node k carries the name of the k-th non-blank line, every child list
\* is in the order of the lines, and a sibling is reported only after the
\* siblings of earlier lines.
C4_SiblingOrder ==
    /\ \A k \in Nodes : names[k] = Trim(NonBlank(lines)[k])
    /\ \A p \in 0..NumNodes :
           \A a, b \in 1..Len(children[p + 1]) :
               a < b => children[p + 1][a] < children[p + 1][b]
    /\ \A q \in 1..Len(out) :
           \A s \in Nodes :
               (s < out[q].node /\ ParentOf(s) = ParentOf(out[q].node)) =>
                   Reported(s, q)

\* A completed run on a forest where a node has two children.
C4_Witness ==
    /\ pc = "done"
    /\ Len(out) = NumNodes
    /\ \E p \in Nodes : Len(children[p + 1]) >= 2

\* C5: the level parseLine gives a non-blank line is the number of space
\* characters it starts with divided by 4, rounded down; a line indented
\* with tab characters only has level 0.
C5_SpacesOnly ==
    (pc = "parsed" /\ ~IsBlankLine(lines[1])) =>
        /\ parsed # NULL
        /\ parsed.level = LeadingSpaces(lines[1]) \div IndentWidth
        /\ Head(lines[1]) = "\t" => parsed.level = 0

\* C6: once mkdirSync has thrown, the run has ended without the completion
\* marker and takes no further step; the failed path is not reported Created
\* and is not there; every directory reported Created is on disk, and the
\* filesystem is the initial one with these directories added.
C6_AbortNoRollback ==
    err # <<>> =>
        /\ pc = "failed"
        /\ ~ENABLED Next
        /\ err[1] \notin CreatedPaths
        /\ err[1] \notin fs.dirs \cup fs.files
        /\ CreatedPaths \subseteq fs.dirs
        /\ fs.dirs = fs0.dirs \cup CreatedPaths
        /\ fs.files = fs0.files

\* A failure after a directory was created and with nodes left to visit.
C6_Witness ==
    /\ err # <<>>
    /\ CreatedPaths # {}
    /\ Len(out) + 1 < NumNodes

\* C7: a visit of a node at whose path an entry exists, directory or not,
\* appends the Exists report of that node, changes nothing on the
\* filesystem, raises no error and, when the node has children, goes on with
\* a call on all of them with that path as parent.
C7_ExistsIsInert ==
    [][(Visiting /\ VisitedPath \in fs.dirs \cup fs.files) =>
           /\ out' = Append(out, [kind |-> "Exists",
                                  node |-> Head(cs[Len(cs)].nodes),
                                  path |-> VisitedPath])
           /\ fs' = fs
           /\ err' = <<>>
           /\ pc' = "createFolders"
           /\ children[Head(cs[Len(cs)].nodes) + 1] # <<>> =>
                  /\ cs' # <<>>
                  /\ cs'[Len(cs')].nodes = children[Head(cs[Len(cs)].nodes) + 1]
                  /\ cs'[Len(cs')].parent = VisitedPath]_vars

\* An existing directory reported Exists whose child was reported after it,
\* and an existing regular file reported Exists.
C7_Witness ==
    /\ \E q \in 1..Len(out) :
           out[q].kind = "Exists" /\ out[q].path \in fs0.files
    /\ \E q, r \in 1..Len(out) :
           /\ q < r
           /\ out[q].kind = "Exists"
           /\ out[q].path \in fs0.dirs
           /\ IsChild(out[r].node, out[q].node)

\* C8: at every point of buildTree the tree under construction, ancestry
\* stack included, is the one built from the non-blank lines read so far;
\* on a template of blank lines only the forest is empty, nothing is
\* reported and the filesystem is never changed.
C8_BlankLinesInert ==
    /\ Tree = BuildTreeOf(NonBlank(SubSeq(lines, 1, i - 1)))
    /\ (\A k \in 1..Len(lines) : IsBlankLine(lines[k])) =>
           /\ names = <<>>
           /\ children = <<<<>>>>
           /\ out = <<>>
           /\ err = <<>>
           /\ fs = fs0

\* A completed run on a template with a whitespace-only line between a line
\* and its child.
C8_Witness ==
    /\ pc = "done"
    /\ Len(lines) = 3
    /\ ~IsBlankLine(lines[1])
    /\ IsBlankLine(lines[2])
    /\ lines[2] # <<>>
    /\ children = <<<<1>>, <<2>>, <<>>>>

\* C9 as stated: after a run that completes, the path of every node is a
\* directory.
C9_EveryNodeADirectory ==
    pc = "done" => \A n \in Nodes : NodePath(n) \in fs.dirs

\* C9 amended: after a run that completes, the path of every node exists,
\* and is a directory unless an entry that is not a directory was at that
\* path before the run; such entries are left as they were.
C9_EveryNodeExists ==
    pc = "done" =>
        /\ fs.files = fs0.files
        /\ \A n \in Nodes :
               /\ NodePath(n) \in fs.dirs \cup fs.files
               /\ NodePath(n) \notin fs0.files => NodePath(n) \in fs.dirs

\* A completed run that created a nested directory and met a regular file.
C9_Witness ==
    /\ pc = "done"
    /\ \E n \in Nodes : NodePath(n) \in fs0.files
    /\ \E n \in Nodes :
           Len(NodePath(n)) = 2 /\ NodePath(n) \in fs.dirs \ fs0.dirs

====
